---- MODULE Spec2Model ----
(***************************************************************************)
(* A model of the Sailhouse Rust SDK client (sdk/src/lib.rs): the          *)
(* wait-group protocol of SailhouseClient::wait and the single-request     *)
(* publish of PublishBuilder::send, over a transport that answers every    *)
(* request with a transport error or with a status and a body.             *)
(*                                                                         *)
(* A call is one invocation of a client method by the application.  Each   *)
(* call runs from one suspension point (.await on the transport) to the    *)
(* next in one step; the transport's answer is the step's input.           *)
(***************************************************************************)
EXTENDS Integers, Sequences, FiniteSets, TLC

VARIABLES
    client,                  \* the SailhouseClient: token and base_url
    args,                    \* args[c]: the arguments call c was made with
    pc,                      \* pc[c]: the .await call c is suspended at
    idx,                     \* idx[c]: iterations of wait's for loop begun
    wait_group_instance_id,  \* wait's local of that name (None before line 150)
    inflight,                \* inflight[c]: the request awaiting its answer
    sent,                    \* sent[c]: the requests call c has issued, in order
    recv,                    \* recv[c]: the answers call c has received, in order
    result                   \* result[c]: what call c returned

vars == <<client, args, pc, idx, wait_group_instance_id, inflight, sent, recv, result>>

----------------------------------------------------------------------------
(* Bounds of the model. *)

\* The longest events vector passed to wait.
MaxEvents == 2

\* The most events in one get-events response.
MaxFetched == 2

\* The longest events vector passed to a wait that runs beside another call
\* on the same client.
MaxSharedEvents == 1

----------------------------------------------------------------------------
(* Rust values. *)

\* Option<T>: None, or Some(x).
None == << >>
Some(x) == <<x>>
IsSome(o) == Len(o) = 1

\* Result<T, reqwest::Error>, and the value of a call that has not returned.
Ok(v) == <<"Ok", v>>
Err(e) == <<"Err", e>>
Pending == <<"Pending">>
Unit == << >>
IsOk(r) == r[1] = "Ok"
IsErr(r) == r[1] = "Err"

\* serde_json values: null, a string, an object (a function from its keys).
JNull == <<"null">>
JStr(s) == <<"str", s>>
JObj(f) == <<"obj", f>>
JNum(n) == <<"num", n>>
JArr(a) == <<"arr", a>>
\* What was received when the body is not a JSON document (it is empty).
EmptyBody == <<"empty">>

\* A HashMap<String, String> as serde serializes it: an object of strings.
JMap(m) == JObj([k \in DOMAIN m |-> JStr(m[k])])

\* An Option<String> as serde serializes it where no field is skipped.
JOption(o) == IF IsSome(o) THEN JStr(o[1]) ELSE JNull

----------------------------------------------------------------------------
(* The values the application and the service draw from. *)

Tokens == {"test-token"}
BaseUrls == {"https://api.sailhouse.dev"}
Topics == {"orders", "audit"}
Payloads == {JStr("event 1"), JStr("event 2")}
MetadataMaps == {[source |-> "test"]}
\* DateTime<Utc> values, as seconds after 1970-01-01T00:00:00Z.
DateTimes == {0, 1}
TimeWindows == {"5m"}
\* The identifiers the service may return for a wait-group instance.
InstanceIds == {"wg-1", "wg-2", ""}
\* The identifiers the service may return for a published event.
EventIds == {"event-id"}

Subscriptions == {"test-sub"}
\* The identifiers of the events a subscription holds.
PulledIds == {"event-1", "event-2"}
\* The clients an Event can be bound to: the client of the calls, or one
\* built with another token.
Clients == [token : Tokens \cup {"event-token"}, base_url : BaseUrls]

\* chrono's DateTime<Utc>::to_rfc3339, on the DateTimes of the model.
to_rfc3339(date) ==
    CASE date = 0 -> "1970-01-01T00:00:00+00:00"
      [] date = 1 -> "1970-01-01T00:00:01+00:00"

\* struct WaitEvent<T>.  An event either carries neither option or both.
WaitEvent ==
    [topic : Topics, body : {JStr("event 1")},
     metadata : {None}, send_at : {None}]
    \cup
    [topic : Topics, body : {JStr("event 2")},
     metadata : {Some(m) : m \in MetadataMaps},
     send_at : {Some(d) : d \in DateTimes \ {0}}]

\* struct WaitOptions, as the Option<WaitOptions> wait takes.
WaitOptions == {None} \cup {Some([ttl |-> t]) : t \in {None} \cup {Some(w) : w \in TimeWindows}}

RECURSIVE SeqsUpTo(_, _)
\* The sequences over S of length at most n.
SeqsUpTo(S, n) ==
    IF n = 0 THEN {<< >>}
    ELSE LET shorter == SeqsUpTo(S, n - 1)
         IN shorter \cup {Append(s, x) : s \in {t \in shorter : Len(t) = n - 1}, x \in S}

\* The arguments of a call of SailhouseClient::wait.
WaitArgs ==
    [op : {"wait"}, topic : Topics, events : SeqsUpTo(WaitEvent, MaxEvents),
     options : WaitOptions]

\* The state of a PublishBuilder when send is called on it.
PublishArgs ==
    [op : {"publish"}, topic : Topics, data : Payloads,
     metadata : {None} \cup {Some(m) : m \in MetadataMaps},
     send_at : {None} \cup {Some(d) : d \in DateTimes},
     wait_group_instance_id : {None} \cup {Some(i) : i \in InstanceIds \ {""}}]

\* struct GetOption.
GetOption == [limit : {None, Some(10)}, offset : {None, Some(0)}]

\* The arguments of a call of SailhouseClient::get_events.
GetEventsArgs ==
    [op : {"get_events"}, topic : Topics, subscription : Subscriptions, opts : GetOption]

\* The arguments of a call of SailhouseClient::acknowledge_message.
AcknowledgeArgs ==
    [op : {"acknowledge_message"}, topic : Topics, subscription : Subscriptions,
     id : {"event-1"}]

\* struct Event, as the application holds it: pulled, or built by hand with
\* or without a client.
Event ==
    [id : {"event-1"}, data : {JStr("event 1")}, topic : Topics,
     subscription : Subscriptions, client : {None} \cup {Some(cl) : cl \in Clients}]

\* The Event that Event::ack is called on.
AckArgs == [op : {"ack"}, event : Event]

----------------------------------------------------------------------------
(* Requests. *)

\* format!("{}/waitgroups/instances", base_url), as its segments.
InstancesUrl(base_url) == <<base_url, "waitgroups", "instances">>
\* format!("{}/waitgroups/instances/{}/events", base_url, id).
InstanceEventsUrl(base_url, id) == <<base_url, "waitgroups", "instances", id, "events">>
\* format!("{}/topics/{}/events", base_url, topic).
TopicEventsUrl(base_url, topic) == <<base_url, "topics", topic, "events">>

\* A reqwest::RequestBuilder before do_req: no header set yet.
NoHeaders == [h \in {} |-> ""]
Request(method, url, body) ==
    [method |-> method, url |-> url, headers |-> NoHeaders, body |-> body]

\* do_req without the x-source header.
do_reqNoSource(cl, req) ==
    [req EXCEPT !.headers = ("Authorization" :> cl.token) @@ @]

\* SailhouseClient::do_req: the two headers, then send.
do_req(cl, req) ==
    [req EXCEPT !.headers =
        ("Authorization" :> cl.token) @@ ("x-source" :> "sailhouse-rust") @@ @]

\* PublishBody without skip_serializing_if: a None field is written as null.
PublishBodyWithNulls(data, metadata, send_at, wgid) ==
    JObj([k \in {"data", "metadata", "send_at", "wait_group_instance_id"} |->
            CASE k = "data" -> data
              [] k = "metadata" -> JOption(IF IsSome(metadata) THEN Some(JMap(metadata[1])) ELSE None)
              [] k = "send_at" -> JOption(IF IsSome(send_at) THEN Some(JStr(send_at[1])) ELSE None)
              [] k = "wait_group_instance_id" ->
                    JOption(IF IsSome(wgid) THEN Some(JStr(wgid[1])) ELSE None)])

\* struct PublishBody<T> under serde: a None field is skipped.
PublishBody(data, metadata, send_at, wgid) ==
    LET keys == {"data"}
                \cup (IF IsSome(metadata) THEN {"metadata"} ELSE {})
                \cup (IF IsSome(send_at) THEN {"send_at"} ELSE {})
                \cup (IF IsSome(wgid) THEN {"wait_group_instance_id"} ELSE {})
    IN JObj([k \in keys |->
                CASE k = "data" -> data
                  [] k = "metadata" -> JMap(metadata[1])
                  [] k = "send_at" -> JStr(send_at[1])
                  [] k = "wait_group_instance_id" -> JStr(wgid[1])])

\* The request wait builds first: json!({"topic": topic, "ttl": ...}).
CreateInstanceReq(cl, topic, options) ==
    Request("POST", InstancesUrl(cl.base_url),
            JObj([topic |-> JStr(topic),
                  ttl |-> JOption(IF IsSome(options) THEN options[1].ttl ELSE None)]))

\* The request SailhouseClient::publish_internal builds.
publish_internal(cl, topic, data, metadata, send_at, wgid) ==
    LET send_at_str == IF IsSome(send_at) THEN Some(to_rfc3339(send_at[1])) ELSE None
    IN Request("POST", TopicEventsUrl(cl.base_url, topic),
               PublishBody(data, metadata, send_at_str, wgid))

\* The request PublishBuilder::send builds.
send(cl, b) ==
    LET send_at_str == IF IsSome(b.send_at) THEN Some(to_rfc3339(b.send_at[1])) ELSE None
    IN Request("POST", TopicEventsUrl(cl.base_url, b.topic),
               PublishBody(b.data, b.metadata, send_at_str, b.wait_group_instance_id))

\* WaitPublishReq with the events taken from the back of the vector.
WaitPublishReqReversed(cl, a, id, i) ==
    LET ev == a.events[Len(a.events) + 1 - i]
    IN publish_internal(cl, a.topic, ev.body, ev.metadata, ev.send_at, Some(id))

\* The call of publish_internal in the i-th iteration of wait's for loop.
WaitPublishReq(cl, a, id, i) ==
    publish_internal(cl, a.topic, a.events[i].body, a.events[i].metadata,
                     a.events[i].send_at, Some(id))

\* CompleteReq sent as a POST.
CompleteReqAsPost(cl, id) ==
    Request("POST", InstanceEventsUrl(cl.base_url, id), JObj([k \in {} |-> JNull]))

\* The request wait builds last: a PUT of json!({}).
CompleteReq(cl, id) ==
    Request("PUT", InstanceEventsUrl(cl.base_url, id), JObj([k \in {} |-> JNull]))

\* format!("{}/topics/{}/subscriptions/{}/events", base_url, topic, subscription).
SubscriptionEventsUrl(base_url, topic, subscription) ==
    <<base_url, "topics", topic, "subscriptions", subscription, "events">>
\* format!("{}/topics/{}/subscriptions/{}/events/{}", base_url, topic, subscription, id).
SubscriptionEventUrl(base_url, topic, subscription, id) ==
    <<base_url, "topics", topic, "subscriptions", subscription, "events", id>>

\* The request get_events builds: a GET with no body, limit and offset in
\* the query when they are given.
GetEventsReq(cl, topic, subscription, opts) ==
    [query |-> (IF IsSome(opts.limit) THEN <<<<"limit", ToString(opts.limit[1])>>>> ELSE << >>)
               \o (IF IsSome(opts.offset) THEN <<<<"offset", ToString(opts.offset[1])>>>> ELSE << >>)]
    @@ Request("GET", SubscriptionEventsUrl(cl.base_url, topic, subscription), EmptyBody)

\* The request SailhouseClient::acknowledge_message builds: a POST of json!({}).
acknowledge_message(cl, topic, subscription, id) ==
    Request("POST", SubscriptionEventUrl(cl.base_url, topic, subscription, id),
            JObj([k \in {} |-> JNull]))

----------------------------------------------------------------------------
(* Answers of the transport. *)

\* send() failed: the reqwest::Error names the request's URL.
TransportError(req) == [kind |-> "error", err |-> [kind |-> "request", url |-> req.url]]
Response(status, body) == [kind |-> "response", status |-> status, body |-> body]

\* Response::json::<T>() failed.
DecodeError(req) == [kind |-> "decode", url |-> req.url]

\* The statuses the service answers with.
Statuses == {200, 201, 500}

InstanceBodies ==
    {JObj([wait_group_instance_id |-> JStr(i)]) : i \in InstanceIds} \cup {EmptyBody}
PublishBodies == {JObj([id |-> JStr(e)]) : e \in EventIds} \cup {EmptyBody}

Answers(req, bodies) ==
    {TransportError(req)} \cup {Response(s, b) : s \in Statuses, b \in bodies}

\* Response::json for a struct of one String field named key: Ok(the field)
\* or a decode error.  Other fields of the body are ignored.
json(req, ans, key) ==
    IF /\ ans.body[1] = "obj"
       /\ key \in DOMAIN ans.body[2]
       /\ ans.body[2][key][1] = "str"
    THEN Ok(ans.body[2][key][2])
    ELSE Err(DecodeError(req))

\* An event on the wire: id and data, and with them or not the topic and
\* subscription fields, which Event does not read.
WireEvents ==
    {JObj([id |-> JStr(i), data |-> JStr("event 1")]) : i \in PulledIds}
    \cup {JObj([id |-> JStr(i), data |-> JStr("event 1"),
                topic |-> JStr("wire-topic"), subscription |-> JStr("wire-sub")]) :
              i \in PulledIds}

GetEventsBodies ==
    {JObj([events |-> JArr(es), offset |-> JNum(0), limit |-> JNum(10)]) :
        es \in SeqsUpTo(WireEvents, MaxFetched)}
    \cup {EmptyBody}

\* serde's Deserialize for Event: id and data are read; topic, subscription
\* and client are #[serde(skip)], so they take their defaults.
DecodeEvent(w) ==
    [id |-> w[2].id[2], data |-> w[2].data, topic |-> "", subscription |-> "",
     client |-> None]

\* Response::json::<GetEventsResponse>.
json_events(req, ans) ==
    IF /\ ans.body[1] = "obj"
       /\ {"events", "offset", "limit"} \subseteq DOMAIN ans.body[2]
       /\ ans.body[2].events[1] = "arr"
       /\ ans.body[2].offset[1] = "num"
       /\ ans.body[2].limit[1] = "num"
       /\ \A i \in 1..Len(ans.body[2].events[2]) :
             LET w == ans.body[2].events[2][i]
             IN w[1] = "obj" /\ {"id", "data"} \subseteq DOMAIN w[2] /\ w[2].id[1] = "str"
    THEN Ok([events |-> [i \in 1..Len(ans.body[2].events[2]) |->
                            DecodeEvent(ans.body[2].events[2][i])],
             offset |-> ans.body[2].offset[2],
             limit |-> ans.body[2].limit[2]])
    ELSE Err(DecodeError(req))

----------------------------------------------------------------------------
(* The calls. *)

Calls == DOMAIN args

\* Call c issues req and suspends at the .await named at, its for loop having
\* begun k iterations and its instance identifier being id.
Issue(c, req, at, k, id) ==
    /\ inflight' = [inflight EXCEPT ![c] = Some(req)]
    /\ sent' = [sent EXCEPT ![c] = Append(@, req)]
    /\ pc' = [pc EXCEPT ![c] = at]
    /\ idx' = [idx EXCEPT ![c] = k]
    /\ wait_group_instance_id' = [wait_group_instance_id EXCEPT ![c] = id]
    /\ UNCHANGED result

\* Call c returns r.
Return(c, r) ==
    /\ inflight' = [inflight EXCEPT ![c] = None]
    /\ pc' = [pc EXCEPT ![c] = "returned"]
    /\ result' = [result EXCEPT ![c] = r]
    /\ UNCHANGED <<sent, idx, wait_group_instance_id>>

\* The ? operator on an Err(e): the call returns it.
Propagate(c, e) == Return(c, Err(e))

\* WaitContinue with the publish requests of the remaining events issued
\* together, the call awaiting them all.
WaitContinueParallel(c, id, k) ==
    IF k < Len(args[c].events)
    THEN LET n == Len(args[c].events)
             reqs == [i \in 1..(n - k) |->
                         do_req(client, WaitPublishReq(client, args[c], id, k + i))]
         IN /\ inflight' = [inflight EXCEPT ![c] = Some(reqs[n - k])]
            /\ sent' = [sent EXCEPT ![c] = @ \o reqs]
            /\ pc' = [pc EXCEPT ![c] = "publish"]
            /\ idx' = [idx EXCEPT ![c] = n]
            /\ wait_group_instance_id' = [wait_group_instance_id EXCEPT ![c] = Some(id)]
            /\ UNCHANGED result
    ELSE Issue(c, do_req(client, CompleteReq(client, id)), "complete", k, Some(id))

\* WaitContinue that never issues the completion request: after the last
\* publish the call waits for an answer that nothing will send.
WaitContinueHangs(c, id, k) ==
    IF k < Len(args[c].events)
    THEN Issue(c, do_req(client, WaitPublishReq(client, args[c], id, k + 1)),
               "publish", k + 1, Some(id))
    ELSE /\ pc' = [pc EXCEPT ![c] = "hung"]
         /\ inflight' = [inflight EXCEPT ![c] = None]
         /\ idx' = [idx EXCEPT ![c] = k]
         /\ wait_group_instance_id' = [wait_group_instance_id EXCEPT ![c] = Some(id)]
         /\ UNCHANGED <<sent, result>>

\* wait's for loop after k iterations, then the completion request.
WaitContinue(c, id, k) ==
    IF k < Len(args[c].events)
    THEN Issue(c, do_req(client, WaitPublishReq(client, args[c], id, k + 1)),
               "publish", k + 1, Some(id))
    ELSE Issue(c, do_req(client, CompleteReq(client, id)), "complete", k, Some(id))

\* wait is called: the create-instance request is issued.
Wait(c) ==
    /\ pc[c] = "start"
    /\ args[c].op = "wait"
    /\ Issue(c, do_req(client, CreateInstanceReq(client, args[c].topic, args[c].options)),
             "create", 0, None)
    /\ UNCHANGED <<client, args, recv>>

\* wait after do_req(req).await at line 148, answered with ans.
WaitCreated(c, ans) ==
    IF ans.kind = "error"
    THEN Propagate(c, ans.err)
    ELSE LET instance == json(inflight[c][1], ans, "wait_group_instance_id")
         IN IF IsErr(instance)
            THEN Propagate(c, instance[2])
            ELSE WaitContinue(c, instance[2], 0)

\* PublishFailed with one more attempt at the request that failed.
PublishFailedRetry(c, e) ==
    IF Len(sent[c]) = idx[c] + 1
    THEN Issue(c, inflight[c][1], "publish", idx[c], wait_group_instance_id[c])
    ELSE Propagate(c, e)

\* The ? on publish_internal(...).await in wait's for loop.
PublishFailed(c, e) == Propagate(c, e)

\* WaitPublished with the instance identifier kept in one place for all the
\* calls of the client: the loop goes on with the identifier another call
\* has stored, when there is one.
WaitPublishedSharedId(c, ans) ==
    IF ans.kind = "error"
    THEN PublishFailed(c, ans.err)
    ELSE LET response == json(inflight[c][1], ans, "id")
             others == {d \in Calls \ {c} : IsSome(wait_group_instance_id[d])}
             id == IF others = {} THEN wait_group_instance_id[c][1]
                   ELSE wait_group_instance_id[CHOOSE d \in others : TRUE][1]
         IN IF IsErr(response)
            THEN PublishFailed(c, response[2])
            ELSE WaitContinue(c, id, idx[c])

\* wait after do_req(req).await in publish_internal, answered with ans.
WaitPublished(c, ans) ==
    IF ans.kind = "error"
    THEN PublishFailed(c, ans.err)
    ELSE LET response == json(inflight[c][1], ans, "id")
         IN IF IsErr(response)
            THEN PublishFailed(c, response[2])
            ELSE WaitContinue(c, wait_group_instance_id[c][1], idx[c])

\* wait after do_req(req).await at line 173, answered with ans: the status
\* is read and nothing is done with it.
WaitCompleted(c, ans) ==
    IF ans.kind = "error"
    THEN Propagate(c, ans.err)
    ELSE Return(c, Ok(Unit))

\* PublishBuilder::send after do_req(req).await, answered with ans: the
\* status is read and nothing is done with it.
Sent(c, ans) ==
    IF ans.kind = "error"
    THEN Propagate(c, ans.err)
    ELSE LET response == json(inflight[c][1], ans, "id")
         IN IF IsErr(response)
            THEN Propagate(c, response[2])
            ELSE Return(c, Ok([id |-> response[2]]))

\* wait resumes with the answer to the create-instance request.
WaitCreateResponse(c) ==
    /\ pc[c] = "create"
    /\ \E ans \in Answers(inflight[c][1], InstanceBodies) :
        /\ recv' = [recv EXCEPT ![c] = Append(@, ans)]
        /\ WaitCreated(c, ans)
    /\ UNCHANGED <<client, args>>

\* wait resumes with the answer to the publish request of iteration idx[c].
WaitPublishResponse(c) ==
    /\ pc[c] = "publish"
    /\ \E ans \in Answers(inflight[c][1], PublishBodies) :
        /\ recv' = [recv EXCEPT ![c] = Append(@, ans)]
        /\ WaitPublished(c, ans)
    /\ UNCHANGED <<client, args>>

\* wait resumes with the answer to the completion request.
WaitCompleteResponse(c) ==
    /\ pc[c] = "complete"
    /\ \E ans \in Answers(inflight[c][1], {EmptyBody}) :
        /\ recv' = [recv EXCEPT ![c] = Append(@, ans)]
        /\ WaitCompleted(c, ans)
    /\ UNCHANGED <<client, args>>

\* PublishBuilder::send is called: the publish request is issued.
Publish(c) ==
    /\ pc[c] = "start"
    /\ args[c].op = "publish"
    /\ Issue(c, do_req(client, send(client, args[c])), "send", 0, None)
    /\ UNCHANGED <<client, args, recv>>

\* PublishBuilder::send resumes with the answer to its request.
PublishResponse(c) ==
    /\ pc[c] = "send"
    /\ \E ans \in Answers(inflight[c][1], PublishBodies) :
        /\ recv' = [recv EXCEPT ![c] = Append(@, ans)]
        /\ Sent(c, ans)
    /\ UNCHANGED <<client, args>>

\* get_events is called: its request is issued.
GetEvents(c) ==
    /\ pc[c] = "start"
    /\ args[c].op = "get_events"
    /\ Issue(c, do_req(client, GetEventsReq(client, args[c].topic, args[c].subscription,
                                            args[c].opts)),
             "get", 0, None)
    /\ UNCHANGED <<client, args, recv>>

\* The for loop of get_events with the subscription left as decoded.
StampTopicOnly(cl, topic, subscription, events) ==
    [i \in 1..Len(events) |->
        [events[i] EXCEPT !.topic = topic, !.client = Some(cl)]]

\* The for loop of get_events: every event gets the topic and subscription
\* asked for and a clone of the client.
Stamp(cl, topic, subscription, events) ==
    [i \in 1..Len(events) |->
        [events[i] EXCEPT !.topic = topic, !.subscription = subscription,
                          !.client = Some(cl)]]

\* get_events after do_req(req).await, answered with ans: the status is
\* not read.
Got(c, ans) ==
    IF ans.kind = "error"
    THEN Propagate(c, ans.err)
    ELSE LET response_body == json_events(inflight[c][1], ans)
         IN IF IsErr(response_body)
            THEN Propagate(c, response_body[2])
            ELSE Return(c, Ok([response_body[2] EXCEPT !.events =
                                  Stamp(client, args[c].topic, args[c].subscription, @)]))

\* get_events resumes with the answer to its request.
GetEventsResponse(c) ==
    /\ pc[c] = "get"
    /\ \E ans \in Answers(inflight[c][1], GetEventsBodies) :
        /\ recv' = [recv EXCEPT ![c] = Append(@, ans)]
        /\ Got(c, ans)
    /\ UNCHANGED <<client, args>>

\* acknowledge_message is called: its request is issued.
AcknowledgeMessage(c) ==
    /\ pc[c] = "start"
    /\ args[c].op = "acknowledge_message"
    /\ Issue(c, do_req(client, acknowledge_message(client, args[c].topic,
                                                   args[c].subscription, args[c].id)),
             "acknowledge", 0, None)
    /\ UNCHANGED <<client, args, recv>>

\* Event::ack that acknowledges an Event once: nothing is sent when some
\* call has sent the same acknowledgement already.
ackDeduplicated(c, event) ==
    IF IsSome(event.client)
    THEN LET cl == event.client[1]
             req == do_req(cl, acknowledge_message(cl, event.topic, event.subscription,
                                                   event.id))
         IN IF \E d \in Calls \ {c} : sent[d] = <<req>>
            THEN Return(c, Ok(Unit))
            ELSE Issue(c, req, "acknowledge", 0, None)
    ELSE Return(c, Ok(Unit))

\* Event::ack that reports an Event without a client as an error.
ackUnboundFails(c, event) ==
    IF IsSome(event.client)
    THEN LET cl == event.client[1]
         IN Issue(c, do_req(cl, acknowledge_message(cl, event.topic, event.subscription,
                                                    event.id)),
                  "acknowledge", 0, None)
    ELSE Return(c, Err([kind |-> "builder", url |-> << >>]))

\* Event::ack: acknowledge_message on the Event's client with the Event's
\* topic, subscription and id, or Ok(()) at once when it has no client.
ack(c, event) ==
    IF IsSome(event.client)
    THEN LET cl == event.client[1]
         IN Issue(c, do_req(cl, acknowledge_message(cl, event.topic, event.subscription,
                                                    event.id)),
                  "acknowledge", 0, None)
    ELSE Return(c, Ok(Unit))

\* Event::ack is called.
Ack(c) ==
    /\ pc[c] = "start"
    /\ args[c].op = "ack"
    /\ ack(c, args[c].event)
    /\ UNCHANGED <<client, args, recv>>

\* acknowledge_message after do_req(req).await, answered with ans: the
\* status is read and nothing is done with it.
Acknowledged(c, ans) ==
    IF ans.kind = "error"
    THEN Propagate(c, ans.err)
    ELSE Return(c, Ok(Unit))

\* acknowledge_message resumes with the answer to its request.
AcknowledgeResponse(c) ==
    /\ pc[c] = "acknowledge"
    /\ \E ans \in Answers(inflight[c][1], {EmptyBody}) :
        /\ recv' = [recv EXCEPT ![c] = Append(@, ans)]
        /\ Acknowledged(c, ans)
    /\ UNCHANGED <<client, args>>

\* The calls suspended at an .await.
Suspended == {"create", "publish", "complete", "send", "get", "acknowledge"}

\* Cancel with a request issued to undo what the call has done.
CancelWithRollback(c) ==
    /\ pc[c] \in Suspended
    /\ pc' = [pc EXCEPT ![c] = "cancelled"]
    /\ inflight' = [inflight EXCEPT ![c] = None]
    /\ sent' = [sent EXCEPT ![c] =
                    Append(@, do_req(client, Request("DELETE", inflight[c][1].url, JNull)))]
    /\ UNCHANGED <<client, args, idx, wait_group_instance_id, recv, result>>

\* The application drops the future of call c while it is suspended (a
\* timeout or select around it): the call runs no further and returns
\* nothing; the request it awaited has been issued and stays issued.
Cancel(c) ==
    /\ pc[c] \in Suspended
    /\ pc' = [pc EXCEPT ![c] = "cancelled"]
    /\ inflight' = [inflight EXCEPT ![c] = None]
    /\ UNCHANGED <<client, args, idx, wait_group_instance_id, sent, recv, result>>

----------------------------------------------------------------------------
(* Specifications. *)

\* The state once the client is constructed and the calls in cs are about
\* to be made, each with arguments from as.
Start(cs, as) ==
    /\ client \in [token : Tokens, base_url : BaseUrls]
    /\ args \in [cs -> as]
    /\ pc = [c \in cs |-> "start"]
    /\ idx = [c \in cs |-> 0]
    /\ wait_group_instance_id = [c \in cs |-> None]
    /\ inflight = [c \in cs |-> None]
    /\ sent = [c \in cs |-> << >>]
    /\ recv = [c \in cs |-> << >>]
    /\ result = [c \in cs |-> Pending]

\* One call, of any method with any arguments.
Init ==
    Start({1}, WaitArgs \cup PublishArgs \cup GetEventsArgs \cup AcknowledgeArgs \cup AckArgs)

\* Two calls on the one client: each a wait on one topic with events of one
\* shape (two waits differ in the number of events alone), or a publish.
PairArgs ==
    {a \in WaitArgs :
        /\ a.topic = "orders"
        /\ a.options = None
        /\ \A i \in 1..Len(a.events) :
            a.events[i].topic = "orders" /\ a.events[i].metadata = None}
\* A publish of one payload with no option set.
ExamplePublish ==
    {b \in PublishArgs :
        /\ b.topic = "orders" /\ b.data = JStr("event 1")
        /\ b.metadata = None /\ b.send_at = None /\ b.wait_group_instance_id = None}
\* One call of each of get_events, acknowledge_message and Event::ack, the
\* Event bound to the client of the calls.
ExampleGetEvents ==
    {g \in GetEventsArgs :
        g.topic = "orders" /\ g.opts = [limit |-> Some(10), offset |-> Some(0)]}
ExampleAcknowledge == {k \in AcknowledgeArgs : k.topic = "orders"}
ExampleAck ==
    {k \in AckArgs :
        /\ k.event.topic = "orders"
        /\ k.event.client = Some([token |-> "test-token",
                                  base_url |-> "https://api.sailhouse.dev"])}
Examples == ExamplePublish \cup ExampleGetEvents \cup ExampleAcknowledge \cup ExampleAck

InitPair == Start({1, 2}, PairArgs \cup Examples)

\* The waits that run beside another call on the same client.
SharedArgs ==
    [op : {"wait"}, topic : {"orders"},
     events : SeqsUpTo({e \in WaitEvent : e.topic = "orders" /\ e.metadata = None},
                       MaxSharedEvents),
     options : {None}]

\* Two calls on one client, each of them any of the operations.
InitShared == Start({1, 2}, SharedArgs \cup Examples)

Next ==
    \/ \E c \in Calls : Wait(c)
    \/ \E c \in Calls : WaitCreateResponse(c)
    \/ \E c \in Calls : WaitPublishResponse(c)
    \/ \E c \in Calls : WaitCompleteResponse(c)
    \/ \E c \in Calls : Publish(c)
    \/ \E c \in Calls : PublishResponse(c)
    \/ \E c \in Calls : GetEvents(c)
    \/ \E c \in Calls : GetEventsResponse(c)
    \/ \E c \in Calls : AcknowledgeMessage(c)
    \/ \E c \in Calls : Ack(c)
    \/ \E c \in Calls : AcknowledgeResponse(c)
    \/ \E c \in Calls : Cancel(c)

Spec == Init /\ [][Next]_vars

\* The same program from the two-call start.
SpecPair == InitPair /\ [][Next]_vars
SpecShared == InitShared /\ [][Next]_vars

\* The calls of the one-call start.
LiveCalls == {1}

\* The one-call program when a call that is made is started, and every
\* request a wait is suspended on is answered and the wait resumed.
SpecLive ==
    /\ Init /\ [][Next]_vars
    /\ \A c \in LiveCalls :
        /\ WF_vars(Wait(c))
        /\ WF_vars(WaitCreateResponse(c))
        /\ WF_vars(WaitPublishResponse(c))
        /\ WF_vars(WaitCompleteResponse(c))

----------------------------------------------------------------------------
(* What the claims speak of. *)

IsWait(c) == args[c].op = "wait"
IsPublish(c) == args[c].op = "publish"
Returned(c) == pc[c] = "returned"
NumEvents(c) == Len(args[c].events)

Is2xx(status) == status >= 200 /\ status < 300
HasString(body, key) ==
    body[1] = "obj" /\ key \in DOMAIN body[2] /\ body[2][key][1] = "str"

\* The requests of call c by kind, as the service tells them apart.
IsCreateReq(req) == req.method = "POST" /\ req.url[2] = "waitgroups"
IsPublishReq(req) == req.method = "POST" /\ req.url[2] = "topics"
IsCompleteReq(req) == req.method = "PUT" /\ req.url[2] = "waitgroups"
CountReqs(c, P(_)) == Cardinality({j \in 1..Len(sent[c]) : P(sent[c][j])})

\* An answer that is a failure of the step it answers.
FailedCreate(ans) ==
    \/ ans.kind = "error"
    \/ ~Is2xx(ans.status)
    \/ ~HasString(ans.body, "wait_group_instance_id")
FailedPublish(ans) ==
    \/ ans.kind = "error"
    \/ ans.status # 201
    \/ ~HasString(ans.body, "id")
FailedComplete(ans) ==
    \/ ans.kind = "error"
    \/ ~Is2xx(ans.status)

\* The identifier the create-instance response of call c returned.
CreatedId(c) == recv[c][1].body[2].wait_group_instance_id[2]

\* Every answer call c of wait has received is a success of its step.
AllSucceeded(c) ==
    \A j \in 1..Len(recv[c]) :
        IF j = 1 THEN ~FailedCreate(recv[c][j]) /\ CreatedId(c) # ""
        ELSE IF j <= 1 + NumEvents(c) THEN ~FailedPublish(recv[c][j])
        ELSE ~FailedComplete(recv[c][j])

----------------------------------------------------------------------------
(* The claims. *)

\* C1: in a wait whose create-instance call went through, the publish
\* requests are issued in the order of the events: the i-th publish request
\* is the (i+1)-th request of the call, carries the i-th event's payload,
\* metadata and scheduled time, and carries as wait_group_instance_id the
\* identifier the create-instance response returned.
C1_PublishInOrderWithInstanceId ==
    \A c \in Calls : IsWait(c) =>
        /\ \A j \in 1..Len(sent[c]) :
              IsPublishReq(sent[c][j]) => j >= 2 /\ j <= 1 + NumEvents(c)
        /\ \A i \in 1..NumEvents(c) : Len(sent[c]) >= i + 1 =>
              LET req == sent[c][i + 1]
                  ev == args[c].events[i]
                  body == req.body[2]
              IN /\ IsPublishReq(req)
                 /\ body.data = ev.body
                 /\ ("metadata" \in DOMAIN body) = IsSome(ev.metadata)
                 /\ IsSome(ev.metadata) => body.metadata = JMap(ev.metadata[1])
                 /\ ("send_at" \in DOMAIN body) = IsSome(ev.send_at)
                 /\ IsSome(ev.send_at) =>
                        body.send_at = JStr(to_rfc3339(ev.send_at[1]))
                 /\ "wait_group_instance_id" \in DOMAIN body
                 /\ body.wait_group_instance_id = JStr(CreatedId(c))

\* A wait of two events that differ in payload, metadata and scheduled time
\* has issued both publish requests under a non-empty identifier.
C1_Witness ==
    \E c \in Calls :
        /\ IsWait(c) /\ NumEvents(c) = 2 /\ Len(sent[c]) >= 3
        /\ args[c].events[1].body # args[c].events[2].body
        /\ IsSome(args[c].events[2].metadata) /\ IsSome(args[c].events[2].send_at)
        /\ CreatedId(c) # ""

\* C2: in wait, the i-th event is published to the topic named in that
\* WaitEvent's own topic field: the request goes to /topics/{event.topic}/events.
C2_PublishToEventTopic ==
    \A c \in Calls : IsWait(c) =>
        \A i \in 1..NumEvents(c) : Len(sent[c]) >= i + 1 =>
            sent[c][i + 1].url = <<client.base_url, "topics", args[c].events[i].topic, "events">>

\* C3: if the create-instance call of a wait fails, the wait issues no
\* publish request and no completion request, and returns an error.
C3_CreateFailureStopsWait ==
    \A c \in Calls : IsWait(c) /\ Len(recv[c]) >= 1 /\ FailedCreate(recv[c][1]) =>
        /\ Len(sent[c]) = 1
        /\ IsErr(result[c])

\* C4: if the k-th publish call of a wait fails, exactly k publish requests
\* have been issued, nothing is issued after them, and wait returns an error.
C4_PublishFailureAbortsWait ==
    \A c \in Calls : IsWait(c) =>
        \A k \in 1..NumEvents(c) :
            Len(recv[c]) >= k + 1 /\ FailedPublish(recv[c][k + 1]) =>
                /\ Len(sent[c]) = k + 1
                /\ CountReqs(c, IsPublishReq) = k
                /\ CountReqs(c, IsCompleteReq) = 0
                /\ IsErr(result[c])

\* C5: a wait over N events all of whose steps succeed issues exactly one
\* create-instance request, then N publish requests, then one completion PUT
\* to /waitgroups/instances/{id}/events with the identifier the create
\* response returned, and returns success; so too when N = 0.
C5_SuccessfulWaitSequence ==
    \A c \in Calls : IsWait(c) /\ AllSucceeded(c) =>
        /\ ~IsErr(result[c])
        /\ Returned(c) =>
            /\ result[c] = Ok(Unit)
            /\ Len(sent[c]) = NumEvents(c) + 2
            /\ IsCreateReq(sent[c][1])
            /\ sent[c][1].url = <<client.base_url, "waitgroups", "instances">>
            /\ \A i \in 1..NumEvents(c) : IsPublishReq(sent[c][i + 1])
            /\ sent[c][NumEvents(c) + 2].method = "PUT"
            /\ sent[c][NumEvents(c) + 2].url =
                   <<client.base_url, "waitgroups", "instances", CreatedId(c), "events">>

\* A wait of two events has returned, every step having succeeded.
C5_Witness ==
    \E c \in Calls :
        IsWait(c) /\ NumEvents(c) = 2 /\ Returned(c) /\ AllSucceeded(c)

\* C6: if the completion call of a wait is answered with a status that is
\* not 2xx, or fails in transport, the wait reports failure.
C6_CompletionFailureReported ==
    \A c \in Calls :
        /\ IsWait(c)
        /\ Len(recv[c]) = NumEvents(c) + 2
        /\ FailedComplete(recv[c][NumEvents(c) + 2])
        => IsErr(result[c])

\* C7: a publish issues one request and succeeds, with the event id of the
\* response, only when the response status is 201; any other answer is an
\* error and nothing is retried.  So for PublishBuilder::send, and for the
\* publish step of wait (which succeeds when wait goes on after it).
C7_PublishSucceedsOnlyOn201 ==
    \A c \in Calls :
        /\ IsPublish(c) =>
            /\ Len(sent[c]) <= 1
            /\ IsOk(result[c]) =>
                /\ ~FailedPublish(recv[c][1])
                /\ result[c][2].id = recv[c][1].body[2].id[2]
        /\ IsWait(c) =>
            \A k \in 1..NumEvents(c) :
                Len(sent[c]) >= k + 2 => ~FailedPublish(recv[c][k + 1])

\* C8: wait goes on to publish only if the create-instance call succeeded
\* and returned a non-empty identifier; otherwise it fails at once and
\* publishes nothing.
C8_PublishOnlyAfterValidInstance ==
    \A c \in Calls : IsWait(c) /\ Len(recv[c]) >= 1 =>
        IF ~FailedCreate(recv[c][1]) /\ CreatedId(c) # ""
        THEN TRUE
        ELSE Len(sent[c]) = 1 /\ IsErr(result[c])

\* The step a failed wait failed at: setup, the publish of the k-th event,
\* or completion.
FailedStep(c) ==
    IF Len(sent[c]) = 1 THEN <<"setup", 0>>
    ELSE IF Len(sent[c]) <= 1 + NumEvents(c) THEN <<"publish", Len(sent[c]) - 1>>
    ELSE <<"completion", 0>>

\* C9: the error a failed wait returns identifies the step that failed
\* (setup, publish with the index of the event, completion): two waits that
\* return the same error failed at the same step.
C9_ErrorIdentifiesStep ==
    \A c, d \in Calls :
        /\ IsWait(c) /\ IsWait(d)
        /\ IsErr(result[c]) /\ IsErr(result[d])
        /\ result[c] = result[d]
        => FailedStep(c) = FailedStep(d)

\* The position of call c in wait: calling, creating, publishing the i-th
\* event, completing, returned.
Position(p, i, n) ==
    CASE p = "start" -> 0
      [] p = "create" -> 1
      [] p = "publish" -> 1 + i
      [] p = "complete" -> 2 + n
      [] p = "returned" -> 3 + n

\* C10: within one wait nothing is retried and no state is entered again:
\* at most one create-instance request, at most one publish request for each
\* event, at most one completion request; every step moves the call forward;
\* a call that has returned issues nothing more.
C10_NoRetryNoReentry ==
    /\ [](\A c \in Calls : IsWait(c) =>
            /\ CountReqs(c, IsCreateReq) <= 1
            /\ CountReqs(c, IsPublishReq) <= NumEvents(c)
            /\ CountReqs(c, IsPublishReq) <= idx[c]
            /\ CountReqs(c, IsCompleteReq) <= 1)
    /\ [][\A c \in Calls : IsWait(c) =>
            /\ sent'[c] # sent[c] =>
                  Position(pc'[c], idx'[c], NumEvents(c)) >
                      Position(pc[c], idx[c], NumEvents(c))
            /\ Returned(c) => sent'[c] = sent[c] /\ pc'[c] = pc[c]]_vars

\* A wait of two events has returned an error after its first publish
\* failed: two requests were issued and no more.
C10_Witness ==
    \E c \in Calls :
        /\ IsWait(c) /\ NumEvents(c) = 2 /\ Returned(c) /\ IsErr(result[c])
        /\ Len(sent[c]) = 2 /\ Len(recv[c]) = 2

\* C11: within one wait the requests are serialized: at most one request of
\* the call is unanswered at any time, so the first publish is not sent
\* before the create response is received, the (i+1)-th publish not before
\* the response to the i-th, and the completion not before the response to
\* the last publish; a step issues at most one request.
C11_RequestsSerialized ==
    /\ [](\A c \in Calls : IsWait(c) =>
            /\ Len(recv[c]) <= Len(sent[c])
            /\ Len(sent[c]) <= Len(recv[c]) + 1)
    /\ [][\A c \in Calls : IsWait(c) /\ sent'[c] # sent[c] =>
            /\ Len(sent'[c]) = Len(sent[c]) + 1
            /\ Len(recv'[c]) = Len(sent[c])]_vars

\* A wait of two events has been answered on its first publish and has its
\* second publish unanswered.
C11_Witness ==
    \E c \in Calls :
        /\ IsWait(c) /\ NumEvents(c) = 2
        /\ Len(sent[c]) = 3 /\ Len(recv[c]) = 2
        /\ IsPublishReq(sent[c][3])

\* C13: a wait cancelled at a suspension point issues no request at or after
\* the cancellation and does nothing to compensate; what it has issued is a
\* prefix of create, publish 1..N, completion, so the instance may be left
\* partly populated and never completed.
C13_CancelledWaitIssuesPrefix ==
    /\ [](\A c \in Calls : IsWait(c) /\ pc[c] = "cancelled" =>
            /\ result[c] = Pending
            /\ Len(sent[c]) >= 1 /\ Len(sent[c]) <= NumEvents(c) + 2
            /\ \A j \in 1..Len(sent[c]) :
                  IF j = 1 THEN IsCreateReq(sent[c][j])
                  ELSE IF j <= 1 + NumEvents(c)
                       THEN /\ IsPublishReq(sent[c][j])
                            /\ sent[c][j].body[2].data = args[c].events[j - 1].body
                  ELSE IsCompleteReq(sent[c][j]))
    /\ [][\A c \in Calls : IsWait(c) /\ pc'[c] = "cancelled" =>
            /\ sent'[c] = sent[c]
            /\ recv'[c] = recv[c]
            /\ result'[c] = result[c]
            /\ pc[c] = "cancelled" => pc'[c] = "cancelled"]_vars

\* A wait of two events was cancelled while its first publish was
\* unanswered: the instance exists, one event is in it, nothing completes it.
C13_Witness ==
    \E c \in Calls :
        /\ IsWait(c) /\ NumEvents(c) = 2 /\ pc[c] = "cancelled"
        /\ Len(sent[c]) = 2 /\ Len(recv[c]) = 1

IsGetEvents(c) == args[c].op = "get_events"
IsAcknowledgeMessage(c) == args[c].op = "acknowledge_message"
IsAck(c) == args[c].op = "ack"

\* C14: ack on an Event that has no client returns Ok(()) and issues no
\* request.
C14_UnboundAckSucceedsSilently ==
    \A c \in Calls :
        IsAck(c) /\ ~IsSome(args[c].event.client) =>
            /\ sent[c] = << >>
            /\ recv[c] = << >>
            /\ pc[c] \in {"start", "returned"}
            /\ Returned(c) => result[c] = Ok(Unit)

C14_Witness ==
    \E c \in Calls :
        /\ IsAck(c) /\ ~IsSome(args[c].event.client)
        /\ Returned(c) /\ result[c] = Ok(Unit) /\ sent[c] = << >>

\* The acknowledgement of event on the client it is bound to.
AckReqOf(event) ==
    LET cl == event.client[1]
    IN [method |-> "POST",
        url |-> <<cl.base_url, "topics", event.topic, "subscriptions", event.subscription,
                  "events", event.id>>]

\* C15: ack on an Event that has a client issues exactly one request, a
\* POST to /topics/{topic}/subscriptions/{subscription}/events/{id} of the
\* Event's own topic, subscription and id, and returns the result of that
\* request; every ack call on the same Event issues its own request,
\* whatever the other ack calls have done.
C15_BoundAckIssuesOneRequest ==
    \A c \in Calls :
        IsAck(c) /\ IsSome(args[c].event.client) =>
            /\ pc[c] = "start" => sent[c] = << >>
            /\ pc[c] # "start" =>
                /\ Len(sent[c]) = 1
                /\ sent[c][1].method = AckReqOf(args[c].event).method
                /\ sent[c][1].url = AckReqOf(args[c].event).url
            /\ Returned(c) =>
                /\ Len(recv[c]) = 1
                /\ recv[c][1].kind = "error" => result[c] = Err(recv[c][1].err)
                /\ recv[c][1].kind = "response" /\ recv[c][1].status = 200 =>
                        result[c] = Ok(Unit)

\* Two ack calls on the same Event, both returned, each with its request.
C15_Witness ==
    \E c, d \in Calls :
        /\ c # d /\ IsAck(c) /\ IsAck(d) /\ args[c] = args[d]
        /\ IsSome(args[c].event.client)
        /\ Returned(c) /\ Returned(d)
        /\ Len(sent[c]) = 1 /\ sent[d] = sent[c]
        /\ result[c] = Ok(Unit) /\ recv[c][1].status = 200

\* C16: the events of a successful get_events are those of the response,
\* in its order, each with the topic and subscription asked for, whatever
\* the response said of them, and with a client whose acknowledgement of
\* it goes to that topic and subscription.
C16_EventsStampedInOrder ==
    \A c \in Calls :
        IsGetEvents(c) /\ Returned(c) /\ IsOk(result[c]) =>
            LET wire == recv[c][1].body[2].events[2]
                events == result[c][2].events
            IN /\ Len(events) = Len(wire)
               /\ \A i \in 1..Len(wire) :
                    /\ events[i].id = wire[i][2].id[2]
                    /\ events[i].data = wire[i][2].data
                    /\ events[i].topic = args[c].topic
                    /\ events[i].subscription = args[c].subscription
                    /\ IsSome(events[i].client)
                    /\ AckReqOf(events[i]).url =
                          <<client.base_url, "topics", args[c].topic, "subscriptions",
                            args[c].subscription, "events", wire[i][2].id[2]>>

\* Two events pulled, the response naming another topic and subscription.
C16_Witness ==
    \E c \in Calls :
        /\ IsGetEvents(c) /\ Returned(c) /\ IsOk(result[c])
        /\ Len(result[c][2].events) = 2
        /\ result[c][2].events[1].id = "event-2"
        /\ result[c][2].events[2].id = "event-1"
        /\ \A i \in 1..2 : "topic" \in DOMAIN recv[c][1].body[2].events[2][i][2]

\* The token of the client that call c sends its requests with.
TokenOf(c) == IF IsAck(c) THEN args[c].event.client[1].token ELSE client.token

\* C17: every request of every operation carries the header Authorization,
\* whose value is the token as given, and the header x-source:
\* sailhouse-rust.
C17_EveryRequestCarriesHeaders ==
    \A c \in Calls : \A j \in 1..Len(sent[c]) :
        /\ {"Authorization", "x-source"} \subseteq DOMAIN sent[c][j].headers
        /\ sent[c][j].headers["Authorization"] = TokenOf(c)
        /\ sent[c][j].headers["x-source"] = "sailhouse-rust"

\* A wait that has issued its three kinds of request.
C17_Witness ==
    \E c \in Calls :
        /\ IsWait(c) /\ NumEvents(c) = 1 /\ Len(sent[c]) = 3
        /\ IsCompleteReq(sent[c][3])

\* The body of a publish request has data, and the key of each option that
\* is set, and no other key, and no null.
BodyHasExactly(body, data, metadata, send_at, wgid) ==
    /\ body[1] = "obj"
    /\ DOMAIN body[2] =
          {"data"}
          \cup (IF IsSome(metadata) THEN {"metadata"} ELSE {})
          \cup (IF IsSome(send_at) THEN {"send_at"} ELSE {})
          \cup (IF IsSome(wgid) THEN {"wait_group_instance_id"} ELSE {})
    /\ body[2].data = data
    /\ \A k \in DOMAIN body[2] \ {"data"} : body[2][k] # JNull
    /\ IsSome(metadata) => body[2].metadata = JMap(metadata[1])
    /\ IsSome(send_at) => body[2].send_at = JStr(to_rfc3339(send_at[1]))
    /\ IsSome(wgid) => body[2].wait_group_instance_id = JStr(wgid[1])

\* C18: the body of a publish request has the data given, and each of
\* metadata, send_at and wait_group_instance_id exactly when it was set;
\* an option not set is not in the body, as null or otherwise.  So for
\* PublishBuilder::send and for the publishes of wait.
C18_PublishBodyHasOnlySetFields ==
    \A c \in Calls :
        /\ IsPublish(c) =>
            \A j \in 1..Len(sent[c]) :
                BodyHasExactly(sent[c][j].body, args[c].data, args[c].metadata,
                               args[c].send_at, args[c].wait_group_instance_id)
        /\ IsWait(c) =>
            \A j \in 2..Len(sent[c]) :
                j <= NumEvents(c) + 1 =>
                    LET ev == args[c].events[j - 1]
                    IN BodyHasExactly(sent[c][j].body, ev.body, ev.metadata, ev.send_at,
                                      wait_group_instance_id[c])

\* A publish with no option set has been sent.
C18_Witness ==
    \E c \in Calls :
        /\ IsPublish(c) /\ Len(sent[c]) = 1
        /\ args[c].metadata = None /\ args[c].send_at = None
        /\ args[c].wait_group_instance_id = None
        /\ DOMAIN sent[c][1].body[2] = {"data"}

\* C19: acknowledge_message returns Ok only when the response status is
\* 200; with any other status it returns an error.
C19_AcknowledgeSucceedsOnlyOn200 ==
    \A c \in Calls :
        IsAcknowledgeMessage(c) /\ Returned(c) /\ IsOk(result[c]) =>
            recv[c][1].kind = "response" /\ recv[c][1].status = 200

\* C20: get_events returns Ok only when the response status is 200; with
\* any other status it returns an error, even if the body decodes.
C20_GetEventsSucceedsOnlyOn200 ==
    \A c \in Calls :
        IsGetEvents(c) /\ Returned(c) /\ IsOk(result[c]) =>
            recv[c][1].kind = "response" /\ recv[c][1].status = 200

\* C12: of two wait calls on the same client, in any interleaving, each
\* sends its publishes and its completion request with the identifier of
\* its own create-instance response, never with the other call's, and no
\* step of either call changes the client.
C12_EachWaitUsesOwnInstanceId ==
    /\ [](\A c \in Calls : IsWait(c) =>
            \A j \in 2..Len(sent[c]) :
                LET carried == IF j <= NumEvents(c) + 1
                               THEN sent[c][j].body[2].wait_group_instance_id[2]
                               ELSE sent[c][j].url[4]
                IN /\ carried = CreatedId(c)
                   /\ \A d \in Calls \ {c} :
                        /\ IsWait(d) /\ Len(sent[d]) >= 2
                        /\ CreatedId(d) # CreatedId(c)
                        => carried # CreatedId(d))
    /\ [][client' = client]_vars

\* Two waits with different identifiers, both having published and
\* completed, the second created, published and completed while the first
\* was between its steps.
C12_Witness ==
    \E c, d \in Calls :
        /\ c # d /\ IsWait(c) /\ IsWait(d)
        /\ NumEvents(c) = 1 /\ NumEvents(d) = 1
        /\ Len(sent[c]) = 3 /\ Len(sent[d]) = 3
        /\ CreatedId(c) = "wg-1" /\ CreatedId(d) = "wg-2"
        /\ Returned(d) /\ pc[c] = "complete"

\* C21: the body of the create-instance request of wait has the topic
\* given to wait, and a ttl exactly when the options give one; with no
\* options or no ttl in them the body has no ttl key, not a null one.
C21_CreateBodyHasTtlOnlyWhenSet ==
    \A c \in Calls : IsWait(c) /\ Len(sent[c]) >= 1 =>
        LET body == sent[c][1].body
            supplied == IsSome(args[c].options) /\ IsSome(args[c].options[1].ttl)
        IN /\ body[1] = "obj"
           /\ "topic" \in DOMAIN body[2]
           /\ body[2].topic = JStr(args[c].topic)
           /\ "ttl" \in DOMAIN body[2] <=> supplied
           /\ supplied => body[2].ttl = JStr(args[c].options[1].ttl[1])

\* The terminal states of a wait: completed, or failed at the step of its
\* last request, whose answer is the failure returned.
Completed(c) ==
    /\ result[c] = Ok(Unit)
    /\ Len(sent[c]) = NumEvents(c) + 2
    /\ Len(recv[c]) = Len(sent[c])
FailedAt(c, step) ==
    /\ IsErr(result[c])
    /\ Len(sent[c]) >= 1
    /\ Len(recv[c]) = Len(sent[c])
    /\ FailedStep(c) = step
    /\ LET last == recv[c][Len(recv[c])]
       IN IF last.kind = "error" THEN result[c] = Err(last.err)
          ELSE result[c] = Err(DecodeError(sent[c][Len(sent[c])]))
Steps(c) ==
    {<<"setup", 0>>, <<"completion", 0>>} \cup {<<"publish", i>> : i \in 1..NumEvents(c)}

\* C22: when every request is answered, a wait over its events ends, in
\* exactly one of: completed, failed at create, failed at the publish of
\* one event i, failed at completion; it does not stay suspended at any of
\* its steps for ever (a call whose future was dropped aside, its request
\* never being answered to it), it stays in the state it ended in, and it
\* issues at most N + 2 requests.
C22_WaitTerminates ==
    /\ [](\A c \in LiveCalls : IsWait(c) =>
            /\ Len(sent[c]) <= NumEvents(c) + 2
            /\ Returned(c) =>
                /\ Completed(c) \/ \E step \in Steps(c) : FailedAt(c, step)
                /\ ~(Completed(c) /\ \E step \in Steps(c) : FailedAt(c, step))
                /\ Cardinality({step \in Steps(c) : FailedAt(c, step)}) <= 1)
    /\ [][\A c \in LiveCalls : IsWait(c) /\ Returned(c) =>
            /\ pc'[c] = pc[c] /\ result'[c] = result[c]
            /\ sent'[c] = sent[c] /\ recv'[c] = recv[c]]_vars
    /\ \A c \in LiveCalls :
            (IsWait(c) /\ pc[c] \in {"start", "create", "publish", "complete"})
                ~> (Returned(c) \/ pc[c] = "cancelled")

\* A wait of two events that failed at the publish of the second.
C22_Witness ==
    \E c \in LiveCalls :
        /\ IsWait(c) /\ NumEvents(c) = 2 /\ Returned(c)
        /\ FailedAt(c, <<"publish", 2>>)
        /\ Len(sent[c]) = 3

====
